---- MODULE Spec2Model ----
(***************************************************************************)
(* Trade-execution and accounting core of the backtester:                  *)
(*   engine/portfolio.py  (Trade, Position, Portfolio)                     *)
(*   engine/backtest.py   (Backtester.run / _execute_trades /              *)
(*                         _generate_results)                              *)
(*                                                                         *)
(* Money, prices and quantities are Python floats in the source.  They are *)
(* modelled as exact rationals <<numerator, denominator>> in lowest terms  *)
(* with a positive denominator, so that equality of two amounts is         *)
(* equality of the pairs.  Timestamps are integers.                        *)
(***************************************************************************)
EXTENDS Integers, Sequences, FiniteSets, TLC

VARIABLES portfolio, slippage, allow_short, results, bars, pc, ret, calls,
          rerun, engine, simulation

vars == <<portfolio, slippage, allow_short, results, bars, pc, ret, calls,
          rerun, engine, simulation>>

(***************************************************************************)
(* Bounds of the model.                                                    *)
(***************************************************************************)
\* longest bar sequence handed to Backtester.run
MaxBars == 3
\* number of direct calls of the Portfolio methods since the last reset, and
\* of calls of BacktestEngine.backtest
MaxCalls == 2
\* most CLOSED rows of a trade log handed to MonteCarloSimulation
MaxTrades == 2
\* largest num_simulations handed to MonteCarloSimulation
MaxSimulations == 2

(***************************************************************************)
(* Exact arithmetic standing for the float operators + - * / < >.          *)
(***************************************************************************)
Abs(n) == IF n < 0 THEN -n ELSE n

RECURSIVE GCD(_, _)
GCD(a, b) == IF b = 0 THEN a ELSE GCD(b, a % b)

Rat(n, d) ==
    LET g == GCD(Abs(n), Abs(d))
        s == IF d < 0 THEN -1 ELSE 1
    IN  <<(s * n) \div g, (s * d) \div g>>

Zero == <<0, 1>>
One == <<1, 1>>
Hundred == <<100, 1>>

RAdd(a, b) ==
    LET g == GCD(a[2], b[2])
    IN  Rat(a[1] * (b[2] \div g) + b[1] * (a[2] \div g), a[2] * (b[2] \div g))

RNeg(a) == <<-a[1], a[2]>>

RSub(a, b) == RAdd(a, RNeg(b))

RMul(a, b) ==
    LET g1 == GCD(Abs(a[1]), b[2])
        g2 == GCD(Abs(b[1]), a[2])
    IN  <<(a[1] \div g1) * (b[1] \div g2), (a[2] \div g2) * (b[2] \div g1)>>

RDiv(a, b) == RMul(a, Rat(b[2], b[1]))

RGt(a, b) ==
    LET g == GCD(a[2], b[2])
    IN  a[1] * (b[2] \div g) > b[1] * (a[2] \div g)

RAbs(a) == <<Abs(a[1]), a[2]>>

\* float('inf'), which no amount equals
Infinity == <<1, 0>>

(***************************************************************************)
(* Enumerations and the absent values (Python None).                       *)
(***************************************************************************)
\* SignalType
BUY == 1
SELL == 0 - 1
HOLD == 0

\* PositionType
LONG == "LONG"
SHORT == "SHORT"

\* Portfolio.current_position is None
NoPosition == [position_type |-> "NONE"]
\* Trade.exit_time is None
NoTime == 0 - 1
\* open_position(quantity=None)
NoQuantity == <<>>
\* Backtester.results is None
NoResults == [ready |-> FALSE]

(***************************************************************************)
(* Trade and Position.                                                     *)
(***************************************************************************)
\* Trade(entry_time, position_type, entry_price, quantity, commission,
\*       status="OPEN") with the dataclass defaults for the other fields
Trade(entry_time, position_type, entry_price, quantity, commission) ==
    [entry_time |-> entry_time, exit_time |-> NoTime,
     position_type |-> position_type, entry_price |-> entry_price,
     exit_price |-> Zero, quantity |-> quantity, commission |-> commission,
     pnl |-> Zero, pnl_percent |-> Zero, status |-> "OPEN"]

\* the commission of the exit assigned instead of added
total_commission_exit_only(self, commission) == commission

\* self.commission += commission in Trade.close_trade
total_commission(self, commission) == RAdd(self.commission, commission)

\* the pnl taken before the commissions
close_trade_gross_pnl(self, exit_time, exit_price, commission) ==
    LET move == IF self.position_type = LONG
                THEN RSub(exit_price, self.entry_price)
                ELSE RSub(self.entry_price, exit_price)
    IN  [self EXCEPT
            !.exit_time = exit_time,
            !.exit_price = exit_price,
            !.status = "CLOSED",
            !.pnl = RMul(move, self.quantity),
            !.commission = total_commission(self, commission),
            !.pnl_percent = IF RGt(self.entry_price, Zero)
                            THEN RMul(RDiv(move, self.entry_price), Hundred)
                            ELSE self.pnl_percent]

\* Trade.close_trade
close_trade(self, exit_time, exit_price, commission) ==
    LET move == IF self.position_type = LONG
                THEN RSub(exit_price, self.entry_price)
                ELSE RSub(self.entry_price, exit_price)
    IN  [self EXCEPT
            !.exit_time = exit_time,
            !.exit_price = exit_price,
            !.status = "CLOSED",
            !.pnl = RSub(RSub(RMul(move, self.quantity), self.commission), commission),
            !.commission = total_commission(self, commission),
            !.pnl_percent = IF RGt(self.entry_price, Zero)
                            THEN RMul(RDiv(move, self.entry_price), Hundred)
                            ELSE self.pnl_percent]

\* Trade.is_winner
is_winner(self) == RGt(self.pnl, Zero)

\* Position(position_type, entry_time, entry_price, quantity, current_price)
Position(position_type, entry_time, entry_price, quantity, current_price) ==
    [position_type |-> position_type, entry_time |-> entry_time,
     entry_price |-> entry_price, quantity |-> quantity,
     current_price |-> current_price]

\* Position.update_price
update_price(self, price) == [self EXCEPT !.current_price = price]

\* Position.unrealized_pnl
unrealized_pnl(self) ==
    IF self.position_type = LONG
    THEN RMul(RSub(self.current_price, self.entry_price), self.quantity)
    ELSE RMul(RSub(self.entry_price, self.current_price), self.quantity)

(***************************************************************************)
(* Portfolio.  A portfolio is a record of the object's attributes; each    *)
(* method is an operator from the object (and the arguments) to the object *)
(* after the call and, where the method returns one, the returned value.   *)
(***************************************************************************)
\* Portfolio.__init__
NewPortfolio(initial_capital, commission_rate, position_size, short) ==
    [initial_capital |-> initial_capital, commission_rate |-> commission_rate,
     position_size |-> position_size, allow_short |-> short,
     cash |-> initial_capital, equity |-> initial_capital,
     current_position |-> NoPosition, trades |-> <<>>,
     equity_curve |-> <<>>, timestamps |-> <<>>]

\* the quantity derived with no room left for the commission
derived_quantity_no_commission(self, price) ==
    RDiv(RMul(self.cash, self.position_size), price)

\* quantity derived from position_size when none is supplied
derived_quantity(self, price) ==
    LET available_for_position == RMul(self.cash, self.position_size)
        position_value == RDiv(available_for_position, RAdd(One, self.commission_rate))
    IN  RDiv(position_value, price)

\* the trade assigned as the whole log instead of appended to it
opened_overwrite(self, timestamp, price, position_type, qty, commission, required_capital) ==
    [self EXCEPT
        !.current_position = Position(position_type, timestamp, price, qty, price),
        !.cash = RSub(self.cash, required_capital),
        !.trades = <<Trade(timestamp, position_type, price, qty, commission)>>]

\* the part of open_position after the checks: the position is created, the
\* cash debited and the trade appended
opened(self, timestamp, price, position_type, qty, commission, required_capital) ==
    [self EXCEPT
        !.current_position = Position(position_type, timestamp, price, qty, price),
        !.cash = RSub(self.cash, required_capital),
        !.trades = Append(self.trades,
                          Trade(timestamp, position_type, price, qty, commission))]

\* the position assigned before the check of the funds
open_funded_position_first(self, timestamp, price, position_type, quantity) ==
    LET qty == IF quantity = NoQuantity THEN derived_quantity(self, price) ELSE quantity
        commission == RMul(RMul(qty, price), self.commission_rate)
        required_capital == RAdd(RMul(qty, price), commission)
    IN  IF RGt(required_capital, self.cash)
        THEN [pf |-> [self EXCEPT !.current_position =
                         Position(position_type, timestamp, price, qty, price)],
              ret |-> FALSE]
        ELSE [pf |-> opened(self, timestamp, price, position_type, qty,
                            commission, required_capital),
              ret |-> TRUE]

\* the part of open_position after the checks of the position and the side:
\* quantity, commission, check of the funds, opening
open_funded(self, timestamp, price, position_type, quantity) ==
    LET qty == IF quantity = NoQuantity THEN derived_quantity(self, price) ELSE quantity
        commission == RMul(RMul(qty, price), self.commission_rate)
        required_capital == RAdd(RMul(qty, price), commission)
    IN  IF RGt(required_capital, self.cash)
        THEN [pf |-> self, ret |-> FALSE]
        ELSE [pf |-> opened(self, timestamp, price, position_type, qty,
                            commission, required_capital),
              ret |-> TRUE]

\* open_position without its first check, of a position being open already
open_position_unchecked(self, timestamp, price, position_type, quantity) ==
    IF position_type = SHORT /\ ~self.allow_short
    THEN [pf |-> self, ret |-> FALSE]
    ELSE open_funded(self, timestamp, price, position_type, quantity)

\* Portfolio.open_position
open_position(self, timestamp, price, position_type, quantity) ==
    IF self.current_position # NoPosition
    THEN [pf |-> self, ret |-> FALSE]
    ELSE IF position_type = SHORT /\ ~self.allow_short
    THEN [pf |-> self, ret |-> FALSE]
    ELSE open_funded(self, timestamp, price, position_type, quantity)

\* only the profit of a LONG position credited, not its proceeds
close_credit_profit_only(position, price, commission) ==
    LET pnl == IF position.position_type = LONG
               THEN RMul(RSub(price, position.entry_price), position.quantity)
               ELSE RMul(RSub(position.entry_price, price), position.quantity)
    IN  IF position.position_type = LONG
        THEN RSub(pnl, commission)
        ELSE RSub(RAdd(RMul(position.quantity, position.entry_price), pnl), commission)

\* a SHORT position credited with its pnl alone, without the capital
\* debited when it was opened
close_credit_short_pnl_only(position, price, commission) ==
    IF position.position_type = LONG
    THEN RSub(RMul(position.quantity, price), commission)
    ELSE RSub(RMul(RSub(position.entry_price, price), position.quantity), commission)

\* cash credited by close_position
close_credit(position, price, commission) ==
    IF position.position_type = LONG
    THEN RSub(RMul(position.quantity, price), commission)
    ELSE LET pnl == RMul(RSub(position.entry_price, price), position.quantity)
         IN  RSub(RAdd(RMul(position.quantity, position.entry_price), pnl), commission)

\* index of self.trades[-1], the trade that close_position closes
closing_index(self) == Len(self.trades)

\* Portfolio.close_position
close_position(self, timestamp, price) ==
    IF self.current_position = NoPosition
    THEN [pf |-> self, ret |-> FALSE]
    ELSE
    LET commission == RMul(RMul(self.current_position.quantity, price), self.commission_rate)
        n == closing_index(self)
        closing == n > 0 /\ self.trades[n].status = "OPEN"
    IN  [pf |-> [self EXCEPT
                    !.trades = IF closing
                               THEN [self.trades EXCEPT
                                        ![n] = close_trade(self.trades[n], timestamp, price, commission)]
                               ELSE self.trades,
                    !.cash = IF closing
                             THEN RAdd(self.cash, close_credit(self.current_position, price, commission))
                             ELSE self.cash,
                    !.current_position = NoPosition],
         ret |-> TRUE]

\* first part of Portfolio.update: the position is marked to the price and
\* the equity recomputed
mark_to_market(self, price) ==
    IF self.current_position # NoPosition
    THEN LET position == update_price(self.current_position, price)
         IN  [self EXCEPT
                !.current_position = position,
                !.equity = RAdd(RAdd(self.cash, unrealized_pnl(position)),
                                RMul(position.quantity, price))]
    ELSE [self EXCEPT !.equity = self.cash]

\* second part of Portfolio.update: the equity and the timestamp are recorded
record_equity(self, timestamp) ==
    [self EXCEPT
        !.equity_curve = Append(self.equity_curve, self.equity),
        !.timestamps = Append(self.timestamps, timestamp)]

\* update recording the equity only under the branch of an open position
update_when_open(self, timestamp, price) ==
    IF self.current_position # NoPosition
    THEN record_equity(mark_to_market(self, price), timestamp)
    ELSE mark_to_market(self, price)

\* Portfolio.update
update(self, timestamp, price) == record_equity(mark_to_market(self, price), timestamp)

\* reset leaving the trade log as it is
reset_keep_trades(self) ==
    [self EXCEPT
        !.cash = self.initial_capital,
        !.equity = self.initial_capital,
        !.current_position = NoPosition,
        !.equity_curve = <<>>,
        !.timestamps = <<>>]

\* Portfolio.reset
reset(self) ==
    [self EXCEPT
        !.cash = self.initial_capital,
        !.equity = self.initial_capital,
        !.current_position = NoPosition,
        !.trades = <<>>,
        !.equity_curve = <<>>,
        !.timestamps = <<>>]

\* Portfolio.get_closed_trades
get_closed_trades(self) == SelectSeq(self.trades, LAMBDA t : t.status = "CLOSED")

\* Portfolio.get_open_trades
get_open_trades(self) == SelectSeq(self.trades, LAMBDA t : t.status = "OPEN")

RECURSIVE SumPnl(_)
SumPnl(ts) == IF ts = <<>> THEN Zero ELSE RAdd(ts[1].pnl, SumPnl(Tail(ts)))

\* Portfolio.total_pnl
total_pnl(self) == SumPnl(get_closed_trades(self))

\* Portfolio.total_return
total_return(self) ==
    IF self.initial_capital = Zero
    THEN Zero
    ELSE RMul(RDiv(RSub(self.equity, self.initial_capital), self.initial_capital), Hundred)

\* Portfolio.total_trades
total_trades(self) == Len(get_closed_trades(self))

\* Portfolio.winning_trades
winning_trades(self) ==
    Len(SelectSeq(get_closed_trades(self), LAMBDA t : is_winner(t)))

\* Portfolio.losing_trades
losing_trades(self) ==
    Len(SelectSeq(get_closed_trades(self), LAMBDA t : ~is_winner(t)))

\* no gross loss taken for no gross profit
profit_factor_no_inf(self) ==
    LET gross_profit == SumPnl(SelectSeq(get_closed_trades(self), LAMBDA t : is_winner(t)))
        gross_loss == RAbs(SumPnl(SelectSeq(get_closed_trades(self), LAMBDA t : ~is_winner(t))))
    IN  IF gross_loss = Zero
        THEN Zero
        ELSE RDiv(gross_profit, gross_loss)

\* Portfolio.profit_factor
profit_factor(self) ==
    LET gross_profit == SumPnl(SelectSeq(get_closed_trades(self), LAMBDA t : is_winner(t)))
        gross_loss == RAbs(SumPnl(SelectSeq(get_closed_trades(self), LAMBDA t : ~is_winner(t))))
    IN  IF gross_loss = Zero
        THEN IF RGt(gross_profit, Zero) THEN Infinity ELSE Zero
        ELSE RDiv(gross_profit, gross_loss)

(***************************************************************************)
(* Backtester.                                                             *)
(***************************************************************************)
\* timestamp of the i-th row of the data frame: one-minute bars, as seconds
BarTime(i) == 60 * i

\* BUY taken for a row without a signal
row_signal_default_buy(row) == IF "signal" \in DOMAIN row THEN row.signal ELSE BUY

\* row.get('signal', SignalType.HOLD.value) of a row of signals_df
row_signal(row) == IF "signal" \in DOMAIN row THEN row.signal ELSE HOLD

\* slippage applied to the close of the bar
execution_price(signal, close_price, slip) ==
    IF signal = BUY THEN RMul(close_price, RAdd(One, slip))
    ELSE IF signal = SELL THEN RMul(close_price, RSub(One, slip))
    ELSE close_price

\* the close made for a BUY signal only
signal_close_buy_only(self, timestamp, signal, price) ==
    IF signal = BUY /\ self.current_position # NoPosition
                    /\ self.current_position.position_type = SHORT
    THEN close_position(self, timestamp, price).pf
    ELSE self

\* the close made for a BUY or SELL signal with the opposite position open
signal_close(self, timestamp, signal, price) ==
    IF signal = BUY /\ self.current_position # NoPosition
                    /\ self.current_position.position_type = SHORT
    THEN close_position(self, timestamp, price).pf
    ELSE IF signal = SELL /\ self.current_position # NoPosition
                          /\ self.current_position.position_type = LONG
    THEN close_position(self, timestamp, price).pf
    ELSE self

\* the open made for a BUY or SELL signal with no position open;
\* called is FALSE when open_position is not reached
signal_open(self, timestamp, signal, price, short) ==
    IF signal = BUY /\ self.current_position = NoPosition
    THEN [called |-> TRUE] @@ open_position(self, timestamp, price, LONG, NoQuantity)
    ELSE IF signal = SELL /\ self.current_position = NoPosition /\ short
    THEN [called |-> TRUE] @@ open_position(self, timestamp, price, SHORT, NoQuantity)
    ELSE [called |-> FALSE, pf |-> self, ret |-> FALSE]

\* the position marked at the price of the fill
execute_bar_mark_at_fill(self, row, slip, short) ==
    LET signal == row_signal(row)
        price == execution_price(signal, row.close, slip)
        closed == signal_close(self, row.timestamp, signal, price)
        open == signal_open(closed, row.timestamp, signal, price, short)
    IN  [called |-> open.called, ret |-> open.ret,
         pf |-> update(open.pf, row.timestamp, price)]

\* one iteration of the loop of Backtester._execute_trades
execute_bar(self, row, slip, short) ==
    LET signal == row_signal(row)
        price == execution_price(signal, row.close, slip)
        closed == signal_close(self, row.timestamp, signal, price)
        open == signal_open(closed, row.timestamp, signal, price, short)
    IN  [called |-> open.called, ret |-> open.ret,
         pf |-> update(open.pf, row.timestamp, row.close)]

\* index[0] in place of index[-1]
last_timestamp_first(rows) == rows[1].timestamp

\* timestamp of the close made after the loop: signals_df.index[-1]
last_timestamp(rows) == rows[Len(rows)].timestamp

\* price of the close made after the loop: signals_df.iloc[-1]['close']
last_price(rows) == rows[Len(rows)].close

\* the close after the loop made at the price of a SELL fill
close_remaining_slipped(self, rows, slip) ==
    IF self.current_position # NoPosition
    THEN close_position(self, last_timestamp(rows),
                        execution_price(SELL, last_price(rows), slip)).pf
    ELSE self

\* Backtester._execute_trades after the loop
close_remaining(self, rows, slip) ==
    IF self.current_position # NoPosition
    THEN close_position(self, last_timestamp(rows), last_price(rows)).pf
    ELSE self

RECURSIVE execute_bars(_, _, _, _)
\* the loop of Backtester._execute_trades over the rows of signals_df
execute_bars(self, rows, slip, short) ==
    IF rows = <<>>
    THEN self
    ELSE execute_bars(execute_bar(self, rows[1], slip, short).pf, Tail(rows), slip, short)

\* the portfolio after Backtester.run on the rows: reset, loop, close after
\* the loop
run(self, rows, slip, short) ==
    close_remaining(execute_bars(reset(self), rows, slip, short), rows, slip)

RECURSIVE SeqMax(_)
\* the maximum of a series that is not empty (for expanding_max_whole)
SeqMax(equity) ==
    IF Len(equity) = 1
    THEN equity[1]
    ELSE LET m == SeqMax(Tail(equity))
         IN  IF RGt(m, equity[1]) THEN m ELSE equity[1]

RECURSIVE SeqMin(_)
\* Series.min() of a series that is not empty
SeqMin(series) ==
    IF Len(series) = 1
    THEN series[1]
    ELSE LET m == SeqMin(Tail(series))
         IN  IF RGt(series[1], m) THEN m ELSE series[1]

\* the maximum of the whole series in place of the running maximum
expanding_max_whole(equity) == [i \in 1..Len(equity) |-> SeqMax(equity)]

RECURSIVE expanding_max(_)
\* equity.expanding().max(): the running maximum of a series that is not empty
expanding_max(equity) ==
    IF Len(equity) = 1
    THEN equity
    ELSE LET n == Len(equity)
             before == expanding_max(SubSeq(equity, 1, n - 1))
         IN  Append(before, IF RGt(equity[n], before[n - 1]) THEN equity[n]
                                                             ELSE before[n - 1])

\* one value of the series (equity - running_max) / running_max * 100
drawdown_at(value, running_max) ==
    RMul(RDiv(RSub(value, running_max), running_max), Hundred)

RECURSIVE drawdowns(_, _)
\* the series (equity - running_max) / running_max * 100
drawdowns(equity, running_max) ==
    IF equity = <<>>
    THEN <<>>
    ELSE <<drawdown_at(equity[1], running_max[1])>>
            \o drawdowns(Tail(equity), Tail(running_max))

drawdown(equity) == drawdowns(equity, expanding_max(equity))

\* Backtester._calculate_max_drawdown, on the equity column of the curve
calculate_max_drawdown(equity) ==
    IF equity = <<>> THEN Zero ELSE RAbs(SeqMin(drawdown(equity)))

\* PerformanceMetrics._calculate_max_drawdown_value, on the same column
calculate_max_drawdown_value(equity) ==
    IF equity = <<>> THEN Zero ELSE RAbs(SeqMin(drawdown(equity)))

(***************************************************************************)
(* PerformanceMetrics.  A metrics dictionary is modelled by the set of its *)
(* keys.                                                                   *)
(***************************************************************************)
\* PerformanceMetrics._calculate_return_metrics
calculate_return_metrics(equity) ==
    IF equity = <<>>
    THEN {}
    ELSE {"total_return_pct", "cagr", "average_daily_return", "return_volatility"}

\* PerformanceMetrics._calculate_risk_metrics
calculate_risk_metrics(equity) ==
    IF equity = <<>> \/ Len(equity) < 2
    THEN {}
    ELSE {"sharpe_ratio", "sortino_ratio", "calmar_ratio", "var_95", "cvar_95"}

\* PerformanceMetrics._calculate_trade_metrics
calculate_trade_metrics(trades) ==
    IF SelectSeq(trades, LAMBDA t : t.status = "CLOSED") = <<>>
    THEN {}
    ELSE {"total_trades", "winning_trades", "losing_trades", "win_rate",
          "average_win", "average_loss", "profit_factor", "expectancy",
          "max_consecutive_wins", "max_consecutive_losses", "best_trade",
          "worst_trade", "avg_trade_duration_minutes"}

\* PerformanceMetrics._calculate_drawdown_metrics
calculate_drawdown_metrics(equity) ==
    IF equity = <<>>
    THEN {}
    ELSE {"max_drawdown_pct", "max_drawdown_duration_bars", "current_drawdown_pct",
          "recovery_factor"}

\* PerformanceMetrics.calculate_all_metrics, on the equity column of
\* Portfolio.get_equity_curve() and the rows of Portfolio.get_trades_df()
calculate_all_metrics(equity, trades) ==
    calculate_return_metrics(equity)
        \cup calculate_risk_metrics(equity)
        \cup (IF trades # <<>> THEN calculate_trade_metrics(trades) ELSE {})
        \cup calculate_drawdown_metrics(equity)

(***************************************************************************)
(* PerformanceMetrics: the values of the drawdown, return and trade        *)
(* metrics, on a curve that is not empty.                                  *)
(***************************************************************************)
\* total_return_pct of _calculate_return_metrics
return_metrics_total_return(equity, initial_capital) ==
    RMul(RDiv(RSub(equity[Len(equity)], initial_capital), initial_capital), Hundred)

\* max_drawdown_pct of _calculate_drawdown_metrics
max_drawdown_pct(equity) == RAbs(SeqMin(drawdown(equity)))

\* total_return of _calculate_drawdown_metrics, taken from the first sample
drawdown_metrics_total_return(equity) ==
    RMul(RDiv(RSub(equity[Len(equity)], equity[1]), equity[1]), Hundred)

\* recovery_factor of _calculate_drawdown_metrics
recovery_factor(equity) ==
    IF RGt(max_drawdown_pct(equity), Zero)
    THEN RDiv(drawdown_metrics_total_return(equity), max_drawdown_pct(equity))
    ELSE Zero

\* a bar level with the running maximum counted as in drawdown
is_drawdown_or_level(equity) ==
    LET series == drawdown(equity)
    IN  [i \in 1..Len(equity) |-> ~RGt(series[i], Zero)]

\* is_drawdown = drawdown < 0
is_drawdown(equity) ==
    LET series == drawdown(equity)
    IN  [i \in 1..Len(equity) |-> RGt(Zero, series[i])]

\* (~flags).cumsum(): the key of the group of each bar
cumsum_not(flags) ==
    [i \in 1..Len(flags) |-> Cardinality({j \in 1..i : ~flags[j]})]

\* is_drawdown.astype(int).groupby((~is_drawdown).cumsum()).sum(): for each
\* key, the number of bars in drawdown of its group
drawdown_periods(flags) ==
    LET key == cumsum_not(flags)
    IN  [k \in {key[i] : i \in 1..Len(flags)} |->
            Cardinality({i \in 1..Len(flags) : key[i] = k /\ flags[i]})]

\* max_drawdown_duration, reported as max_drawdown_duration_bars
max_drawdown_duration(equity) ==
    LET periods == drawdown_periods(is_drawdown(equity))
    IN  IF DOMAIN periods = {}
        THEN 0
        ELSE CHOOSE n \in {periods[k] : k \in DOMAIN periods} :
                \A k \in DOMAIN periods : periods[k] <= n

\* profit_factor of _calculate_trade_metrics, on the rows of a log that has a
\* CLOSED one
trade_metrics_profit_factor(trades_df) ==
    LET closed_trades == SelectSeq(trades_df, LAMBDA t : t.status = "CLOSED")
        wins == SelectSeq(closed_trades, LAMBDA t : RGt(t.pnl, Zero))
        losses == SelectSeq(closed_trades, LAMBDA t : ~RGt(t.pnl, Zero))
        gross_profit == IF wins # <<>> THEN SumPnl(wins) ELSE Zero
        gross_loss == IF losses # <<>> THEN RAbs(SumPnl(losses)) ELSE Zero
    IN  IF RGt(gross_loss, Zero) THEN RDiv(gross_profit, gross_loss) ELSE Infinity

(***************************************************************************)
(* MonteCarloSimulation.  A row of trades_df is its status and its pnl;    *)
(* np.random.choice is a choice among all the index tuples it can return.  *)
(* Of the result, the keys that are rational functions of the simulated    *)
(* equities are modelled.                                                  *)
(***************************************************************************)
\* no call of run_simulation
NoSimulation == [pc |-> "none"]

\* the pnl of every row, OPEN ones too
closed_pnl_of_all_rows(trades_df) == [i \in 1..Len(trades_df) |-> trades_df[i].pnl]

\* pnl_list: the pnl column of the CLOSED rows
closed_pnl(trades_df) ==
    LET closed_trades == SelectSeq(trades_df, LAMBDA t : t.status = "CLOSED")
    IN  [i \in 1..Len(closed_trades) |-> closed_trades[i].pnl]

RECURSIVE cumsum_last(_)
\* np.cumsum(shuffled_pnl)[-1]
cumsum_last(shuffled_pnl) ==
    IF shuffled_pnl = <<>>
    THEN Zero
    ELSE RAdd(shuffled_pnl[1], cumsum_last(Tail(shuffled_pnl)))

\* equity[-1] of one simulation, for the indexes np.random.choice has drawn
simulated_final_equity(initial_capital, pnl_list, choice) ==
    RAdd(initial_capital,
         cumsum_last([i \in 1..Len(pnl_list) |-> pnl_list[choice[i]]]))

\* the statistics returned by run_simulation
simulation_statistics(final_equities, initial_capital, num_simulations) ==
    [num_simulations |-> <<num_simulations, 1>>,
     mean_final_equity |-> RDiv(cumsum_last(final_equities),
                                <<Len(final_equities), 1>>),
     probability_of_profit |->
        RMul(Rat(Cardinality({i \in 1..Len(final_equities) :
                                 RGt(final_equities[i], initial_capital)}),
                 num_simulations),
             Hundred),
     best_case |-> SeqMax(final_equities),
     worst_case |-> SeqMin(final_equities)]

(***************************************************************************)
(* Results of a run.                                                       *)
(***************************************************************************)
\* equity reported as final_equity by Backtester._generate_results
final_equity(self) == self.equity

\* Backtester._generate_results (the scalar fields)
generate_results(self) ==
    [ready |-> TRUE,
     initial_capital |-> self.initial_capital,
     final_equity |-> final_equity(self),
     total_return |-> total_return(self),
     total_pnl |-> total_pnl(self),
     total_trades |-> total_trades(self)]

(***************************************************************************)
(* Inputs.  Neither Portfolio nor Backtester restricts its parameters.     *)
(* The non-zero commission rate and slippage are 1/3 and the prices are    *)
(* powers of two: the amounts of a run are then ratios of small numbers,   *)
(* and the exact arithmetic stays within the integers of the checker.  The *)
(* prices include a doubling (a short position losing all it was opened    *)
(* with) and a quadrupling (a short position losing more than that).       *)
(***************************************************************************)
InitialCapital == <<1000, 1>>
CommissionRates == {Zero, <<1, 3>>}
PositionSizes == {One, <<1, 2>>}
Slippages == {Zero, <<1, 3>>}
\* closing prices of the bars and prices passed to the Portfolio directly
Prices == {<<1, 1>>, <<2, 1>>, <<4, 1>>}
Signals == {BUY, SELL, HOLD}
\* timestamps and quantities passed to the Portfolio directly
Times == {60, 120}
Quantities == {NoQuantity, <<1, 1>>, <<2000, 1>>}

(***************************************************************************)
(* Validation of the parameters of a backtest (utils/validators.py).  A    *)
(* date string is modelled by its three numbers and the separator between  *)
(* them; an operator named raises_... is TRUE when the validation raises.  *)
(***************************************************************************)
\* start_date / end_date is None
NoDate == [sep |-> "none"]

DateString(year, sep, month, day) ==
    [year |-> year, month |-> month, day |-> day, sep |-> sep]

\* number of days of a month of the proleptic Gregorian calendar
days_in_month(year, month) ==
    IF month = 2
    THEN IF year % 4 = 0 /\ (year % 100 # 0 \/ year % 400 = 0) THEN 29 ELSE 28
    ELSE IF month \in {4, 6, 9, 11} THEN 30 ELSE 31

RECURSIVE days_before_month(_, _)
days_before_month(year, month) ==
    IF month = 1
    THEN 0
    ELSE days_before_month(year, month - 1) + days_in_month(year, month - 1)

\* datetime.strptime(v, '%Y-%m-%d'): the day number of the date (its
\* ordinal), or an error for a string that is not a date in this format
strptime(v) ==
    IF /\ v.sep = "-"
       /\ v.year \in 1..9999
       /\ v.month \in 1..12
       /\ v.day \in 1..days_in_month(v.year, v.month)
    THEN [error |-> FALSE,
          ordinal |-> (v.year - 1) * 365 + ((v.year - 1) \div 4)
                         - ((v.year - 1) \div 100) + ((v.year - 1) \div 400)
                         + days_before_month(v.year, v.month) + v.day]
    ELSE [error |-> TRUE]

\* the validator of the commission rate left out
raises_validate_commission_never(v) == FALSE

\* BacktestConfig.validate_commission
raises_validate_commission(v) == RGt(v, <<1, 20>>)

\* BacktestConfig.validate_slippage
raises_validate_slippage(v) == RGt(v, <<1, 200>>)

\* BacktestConfig(initial_capital, commission_rate, position_size, slippage):
\* the constraints of the fields, then the validators
raises_BacktestConfig(initial_capital, commission_rate, position_size, slip) ==
    \/ ~RGt(initial_capital, Zero)
    \/ RGt(Zero, commission_rate) \/ RGt(commission_rate, <<1, 10>>)
    \/ ~RGt(position_size, Zero) \/ RGt(position_size, One)
    \/ RGt(Zero, slip) \/ RGt(slip, <<1, 100>>)
    \/ raises_validate_commission(commission_rate)
    \/ raises_validate_slippage(slip)

\* DataLoadConfig.validate_date_format
raises_validate_date_format(v) == v # NoDate /\ strptime(v).error

\* DataLoadConfig.validate_date_range
raises_validate_date_range(start_date, end_date) ==
    /\ start_date # NoDate
    /\ end_date # NoDate
    /\ LET start_dt == strptime(start_date).ordinal
           end_dt == strptime(end_date).ordinal
       IN  \/ start_dt >= end_dt
           \/ end_dt - start_dt > 3650

\* DataLoadConfig(exchange, start_date, end_date), for an exchange of
\* ExchangeEnum: the validators of the fields, then the validator of the model
raises_DataLoadConfig(start_date, end_date) ==
    \/ raises_validate_date_format(start_date)
    \/ raises_validate_date_format(end_date)
    \/ raises_validate_date_range(start_date, end_date)

(***************************************************************************)
(* BacktestEngine.                                                         *)
(***************************************************************************)
\* BacktestEngine.backtester is None
NoBacktester == [created |-> FALSE]
\* BacktestEngine.data is None
NoData == [loaded |-> FALSE]

\* BacktestEngine.__init__
NewEngine == [results |-> NoResults, backtester |-> NoBacktester, data |-> NoData]

\* the rows the strategy's signals are computed on: the bars the loader
\* returns for any range of dates
LoadedRows ==
    <<[timestamp |-> BarTime(1), close |-> <<1, 1>>, signal |-> BUY],
      [timestamp |-> BarTime(2), close |-> <<2, 1>>, signal |-> SELL]>>

\* self.loader.load_data(exchange, start_date, end_date)
load_data(start_date, end_date) ==
    [loaded |-> TRUE, start_date |-> start_date, end_date |-> end_date, rows |-> LoadedRows]

\* BacktestEngine.backtest: the engine after the call, and whether it raised
backtest(self, args) ==
    IF /\ args.validate
       /\ \/ raises_BacktestConfig(args.initial_capital, args.commission_rate,
                                   args.position_size, args.slippage)
          \/ raises_DataLoadConfig(args.start_date, args.end_date)
    THEN [engine |-> self, raised |-> TRUE]
    ELSE LET data == load_data(args.start_date, args.end_date)
             p == run(NewPortfolio(args.initial_capital, args.commission_rate,
                                   args.position_size, FALSE),
                      data.rows, args.slippage, FALSE)
         IN  [engine |-> [data |-> data,
                          backtester |-> [created |-> TRUE, portfolio |-> p,
                                          slippage |-> args.slippage,
                                          allow_short |-> FALSE],
                          results |-> generate_results(p)],
              raised |-> FALSE]

(***************************************************************************)
(* State machine.  A Backtester is constructed (Init); its portfolio may   *)
(* be driven directly through the Portfolio methods (pc = "idle"), and     *)
(* run() resets it and executes the loop bar by bar (pc = "running") up to *)
(* the close after the last bar and the results (pc = "done"); run() may   *)
(* then be called again on the same data (rerun).                          *)
(***************************************************************************)
Init ==
    /\ \E cr \in CommissionRates, ps \in PositionSizes, sh \in BOOLEAN :
          /\ portfolio = NewPortfolio(InitialCapital, cr, ps, sh)
          /\ allow_short = sh
    /\ slippage \in Slippages
    /\ results = NoResults
    /\ bars = <<>>
    /\ pc = "idle"
    /\ ret = [op |-> "none", result |-> FALSE]
    /\ calls = 0
    /\ rerun = FALSE
    /\ engine = NewEngine
    /\ simulation = NoSimulation

OpenPosition(t, price, side, quantity) ==
    /\ pc = "idle"
    /\ calls < MaxCalls
    /\ LET r == open_position(portfolio, t, price, side, quantity)
       IN  /\ portfolio' = r.pf
           /\ ret' = [op |-> "open_position", result |-> r.ret]
    /\ calls' = calls + 1
    /\ UNCHANGED <<slippage, allow_short, results, bars, pc, rerun, engine, simulation>>

ClosePosition(t, price) ==
    /\ pc = "idle"
    /\ calls < MaxCalls
    /\ LET r == close_position(portfolio, t, price)
       IN  /\ portfolio' = r.pf
           /\ ret' = [op |-> "close_position", result |-> r.ret]
    /\ calls' = calls + 1
    /\ UNCHANGED <<slippage, allow_short, results, bars, pc, rerun, engine, simulation>>

Update(t, price) ==
    /\ pc = "idle"
    /\ calls < MaxCalls
    /\ portfolio' = update(portfolio, t, price)
    /\ ret' = [op |-> "update", result |-> TRUE]
    /\ calls' = calls + 1
    /\ UNCHANGED <<slippage, allow_short, results, bars, pc, rerun, engine, simulation>>

Reset ==
    /\ pc = "idle"
    /\ portfolio' = reset(portfolio)
    /\ ret' = [op |-> "reset", result |-> TRUE]
    /\ calls' = 0
    /\ UNCHANGED <<slippage, allow_short, results, bars, pc, rerun, engine, simulation>>

\* Backtester.run up to the loop: the portfolio is reset
Run ==
    /\ pc = "idle"
    /\ portfolio' = reset(portfolio)
    /\ bars' = <<>>
    /\ pc' = "running"
    /\ ret' = [op |-> "none", result |-> FALSE]
    /\ calls' = 0
    /\ UNCHANGED <<slippage, allow_short, results, rerun, engine, simulation>>

\* one iteration of the loop, on the next row of signals_df
ProcessBar(signal, close) ==
    /\ pc = "running"
    /\ Len(bars) < MaxBars
    /\ LET row == [timestamp |-> BarTime(Len(bars) + 1), close |-> close, signal |-> signal]
           r == execute_bar(portfolio, row, slippage, allow_short)
       IN  /\ bars' = Append(bars, row)
           /\ portfolio' = r.pf
           /\ ret' = IF r.called THEN [op |-> "open_position", result |-> r.ret]
                     ELSE [op |-> "none", result |-> FALSE]
    /\ UNCHANGED <<slippage, allow_short, results, pc, calls, rerun, engine, simulation>>

\* the end of the data: the remaining position is closed, the results are built
Finish ==
    /\ pc = "running"
    /\ Len(bars) >= 1
    /\ LET p == close_remaining(portfolio, bars, slippage)
       IN  /\ portfolio' = p
           /\ results' = generate_results(p)
    /\ pc' = "done"
    /\ ret' = [op |-> "none", result |-> FALSE]
    /\ UNCHANGED <<slippage, allow_short, bars, calls, rerun, engine, simulation>>

\* Backtester.run called again on the data of the run that has ended
Rerun ==
    /\ pc = "done"
    /\ ~rerun
    /\ LET p == run(portfolio, bars, slippage, allow_short)
       IN  /\ portfolio' = p
           /\ results' = generate_results(p)
    /\ rerun' = TRUE
    /\ ret' = [op |-> "none", result |-> FALSE]
    /\ UNCHANGED <<slippage, allow_short, bars, pc, calls, engine, simulation>>

Next ==
    \/ \E t \in Times, price \in Prices, side \in {LONG, SHORT}, quantity \in Quantities :
          OpenPosition(t, price, side, quantity)
    \/ \E t \in Times, price \in Prices : ClosePosition(t, price)
    \/ \E t \in Times, price \in Prices : Update(t, price)
    \/ Reset
    \/ Run
    \/ \E signal \in Signals, close \in Prices : ProcessBar(signal, close)
    \/ Finish

Spec == Init /\ [][Next]_vars

\* the same, with run() called a second time on the data of the first run
NextRerun ==
    \/ Next
    \/ Rerun

SpecRerun == Init /\ [][NextRerun]_vars

(***************************************************************************)
(* Runs on data whose signal column holds any value, or is missing.        *)
(***************************************************************************)
\* values of the signal column: those of SignalType and another one
AnySignals == Signals \cup {2}
SignalCloses == {<<1, 1>>, <<2, 1>>}

\* one iteration of the loop, on a row that has no signal
ProcessUnsignalled(close) ==
    /\ pc = "running"
    /\ Len(bars) < MaxBars
    /\ LET row == [timestamp |-> BarTime(Len(bars) + 1), close |-> close]
           r == execute_bar(portfolio, row, slippage, allow_short)
       IN  /\ bars' = Append(bars, row)
           /\ portfolio' = r.pf
           /\ ret' = IF r.called THEN [op |-> "open_position", result |-> r.ret]
                     ELSE [op |-> "none", result |-> FALSE]
    /\ UNCHANGED <<slippage, allow_short, results, pc, calls, rerun, engine, simulation>>

NextSignals ==
    \/ Run
    \/ \E signal \in AnySignals, close \in SignalCloses : ProcessBar(signal, close)
    \/ \E close \in SignalCloses : ProcessUnsignalled(close)
    \/ Finish

SpecSignals == Init /\ [][NextSignals]_vars

(***************************************************************************)
(* Calls of BacktestEngine.backtest.  The parameters are taken at, inside  *)
(* and outside the limits of the validators; one call is made with the     *)
(* validation disabled.  The Backtester of the other specifications is not *)
(* used here.                                                              *)
(***************************************************************************)
\* parameters within the limits, the limits included
ValidArgs ==
    {[initial_capital |-> <<1000, 1>>, commission_rate |-> cr, position_size |-> ps,
      slippage |-> sl, start_date |-> d[1], end_date |-> d[2], validate |-> TRUE] :
        cr \in {Zero, <<1, 20>>}, ps \in {<<1, 2>>, One}, sl \in {Zero, <<1, 200>>},
        d \in {<<NoDate, NoDate>>,
               <<DateString(2023, "-", 1, 1), NoDate>>,
               <<DateString(2023, "-", 1, 1), DateString(2023, "-", 12, 31)>>}}

DefaultArgs ==
    [initial_capital |-> <<1000, 1>>, commission_rate |-> Zero, position_size |-> One,
     slippage |-> Zero, start_date |-> NoDate, end_date |-> NoDate, validate |-> TRUE]

LimitArgs ==
    [initial_capital |-> <<1000, 1>>, commission_rate |-> <<1, 20>>,
     position_size |-> <<1, 2>>, slippage |-> <<1, 200>>,
     start_date |-> DateString(2023, "-", 1, 1),
     end_date |-> DateString(2023, "-", 12, 31), validate |-> TRUE]

\* ranges of dates: reversed, empty, written with slashes, with a day that
\* does not exist, longer than ten years
OtherDateRanges ==
    {<<DateString(2023, "-", 12, 31), DateString(2023, "-", 1, 1)>>,
     <<DateString(2023, "-", 1, 1), DateString(2023, "-", 1, 1)>>,
     <<DateString(2023, "/", 1, 1), DateString(2023, "-", 12, 31)>>,
     <<DateString(2023, "-", 1, 1), DateString(2023, "-", 2, 30)>>,
     <<NoDate, DateString(2023, "-", 13, 1)>>,
     <<DateString(2010, "-", 1, 1), DateString(2023, "-", 12, 31)>>}

\* one parameter of valid ones replaced by a value at or beyond a limit
OtherArgs ==
    UNION {
        {[b EXCEPT !.initial_capital = v] : v \in {<<0 - 1000, 1>>, Zero}}
        \cup {[b EXCEPT !.commission_rate = v] :
                 v \in {<<0 - 1, 100>>, <<3, 50>>, <<1, 5>>}}
        \cup {[b EXCEPT !.position_size = v] : v \in {Zero, <<2, 1>>}}
        \cup {[b EXCEPT !.slippage = v] :
                 v \in {<<0 - 1, 1000>>, <<3, 500>>, <<1, 50>>}}
        \cup {[b EXCEPT !.start_date = d[1], !.end_date = d[2]] : d \in OtherDateRanges}
        : b \in {DefaultArgs, LimitArgs}}

\* a commission rate beyond the limit, passed with the validation disabled
UnvalidatedArgs == {[DefaultArgs EXCEPT !.commission_rate = <<3, 50>>, !.validate = FALSE]}

BacktestArgs == ValidArgs \cup OtherArgs \cup UnvalidatedArgs

InitEngine ==
    /\ portfolio = NewPortfolio(InitialCapital, Zero, One, FALSE)
    /\ allow_short = FALSE
    /\ slippage = Zero
    /\ results = NoResults
    /\ bars = <<>>
    /\ pc = "idle"
    /\ ret = [op |-> "none", result |-> FALSE]
    /\ calls = 0
    /\ rerun = FALSE
    /\ engine = NewEngine
    /\ simulation = NoSimulation

Backtest(args) ==
    /\ calls < MaxCalls
    /\ LET r == backtest(engine, args)
       IN  /\ engine' = r.engine
           /\ ret' = [op |-> "backtest", result |-> ~r.raised, args |-> args]
    /\ calls' = calls + 1
    /\ UNCHANGED <<portfolio, slippage, allow_short, results, bars, pc, rerun, simulation>>

NextEngine == \E args \in BacktestArgs : Backtest(args)

SpecEngine == InitEngine /\ [][NextEngine]_vars

(***************************************************************************)
(* Runs of a Backtester with capital 10000, no commission, no slippage and *)
(* no shorting, on bars that close at 100 or 110.                          *)
(***************************************************************************)
ScenarioCapital == <<10000, 1>>
ScenarioCloses == {<<100, 1>>, <<110, 1>>}

InitScenario ==
    /\ \E ps \in PositionSizes : portfolio = NewPortfolio(ScenarioCapital, Zero, ps, FALSE)
    /\ allow_short = FALSE
    /\ slippage = Zero
    /\ results = NoResults
    /\ bars = <<>>
    /\ pc = "idle"
    /\ ret = [op |-> "none", result |-> FALSE]
    /\ calls = 0
    /\ rerun = FALSE
    /\ engine = NewEngine
    /\ simulation = NoSimulation

NextScenario ==
    \/ Run
    \/ \E signal \in Signals, close \in ScenarioCloses : ProcessBar(signal, close)
    \/ Finish

SpecScenario == InitScenario /\ [][NextScenario]_vars

(***************************************************************************)
(* MonteCarloSimulation.run_simulation on a trade log: CLOSED rows, and at *)
(* most one OPEN row, the last, whose pnl is still 0.                      *)
(***************************************************************************)
PnlValues == {<<0 - 100, 1>>, Zero, <<50, 1>>}

ClosedRows == {[status |-> "CLOSED", pnl |-> pnl] : pnl \in PnlValues}

OpenRow == [status |-> "OPEN", pnl |-> Zero]

TradeLogs ==
    LET closed == UNION {[1..n -> ClosedRows] : n \in 0..MaxTrades}
    IN  closed \cup {Append(log, OpenRow) : log \in closed}

InitMonteCarlo ==
    /\ portfolio = NewPortfolio(InitialCapital, Zero, One, FALSE)
    /\ allow_short = FALSE
    /\ slippage = Zero
    /\ results = NoResults
    /\ bars = <<>>
    /\ pc = "idle"
    /\ ret = [op |-> "none", result |-> FALSE]
    /\ calls = 0
    /\ rerun = FALSE
    /\ engine = NewEngine
    /\ \E trades_df \in TradeLogs, num_simulations \in 1..MaxSimulations :
          simulation = [pc |-> "call",
                        trades_df |-> trades_df,
                        initial_capital |-> InitialCapital,
                        num_simulations |-> num_simulations,
                        pnl_list |-> <<>>,
                        final_equities |-> <<>>,
                        result |-> <<>>]

\* run_simulation up to its loop: the empty result for a log without CLOSED
\* rows, or pnl_list for the loop
Simulate ==
    /\ simulation.pc = "call"
    /\ simulation' =
          IF simulation.trades_df = <<>>
          THEN [simulation EXCEPT !.pc = "returned", !.result = <<>>]
          ELSE IF closed_pnl(simulation.trades_df) = <<>>
          THEN [simulation EXCEPT !.pc = "returned", !.result = <<>>]
          ELSE [simulation EXCEPT !.pc = "loop",
                                  !.pnl_list = closed_pnl(simulation.trades_df)]
    /\ UNCHANGED <<portfolio, slippage, allow_short, results, bars, pc, ret, calls,
                   rerun, engine>>

\* one iteration of the loop: num_trades values drawn with replacement
Draw(choice) ==
    /\ simulation.pc = "loop"
    /\ Len(simulation.final_equities) < simulation.num_simulations
    /\ simulation' =
          [simulation EXCEPT
              !.final_equities =
                  Append(@, simulated_final_equity(simulation.initial_capital,
                                                   simulation.pnl_list, choice))]
    /\ UNCHANGED <<portfolio, slippage, allow_short, results, bars, pc, ret, calls,
                   rerun, engine>>

\* the end of the loop: the statistics are returned
Statistics ==
    /\ simulation.pc = "loop"
    /\ Len(simulation.final_equities) = simulation.num_simulations
    /\ simulation' =
          [simulation EXCEPT
              !.pc = "returned",
              !.result = simulation_statistics(simulation.final_equities,
                                               simulation.initial_capital,
                                               simulation.num_simulations)]
    /\ UNCHANGED <<portfolio, slippage, allow_short, results, bars, pc, ret, calls,
                   rerun, engine>>

NextMonteCarlo ==
    \/ Simulate
    \/ \E choice \in [1..Len(simulation.pnl_list) -> 1..Len(simulation.pnl_list)] :
          Draw(choice)
    \/ Statistics

SpecMonteCarlo == InitMonteCarlo /\ [][NextMonteCarlo]_vars

(***************************************************************************)
(* Properties.                                                             *)
(***************************************************************************)
LastBar == bars[Len(bars)]
LastTrade == portfolio.trades[Len(portfolio.trades)]

\* C1: at most one trade of the log is OPEN; a trade is OPEN exactly when
\* current_position is set; the OPEN trade is the last entry of the log, the
\* one close_position closes, and it is the trade of the current position.
C1_OneOpenTrade ==
    /\ Len(get_open_trades(portfolio)) <= 1
    /\ (get_open_trades(portfolio) # <<>>) <=> (portfolio.current_position # NoPosition)
    /\ \A i \in 1..Len(portfolio.trades) :
          portfolio.trades[i].status = "OPEN" =>
             /\ i = Len(portfolio.trades)
             /\ i = closing_index(portfolio)
             /\ portfolio.trades[i].entry_time = portfolio.current_position.entry_time
             /\ portfolio.trades[i].position_type = portfolio.current_position.position_type
             /\ portfolio.trades[i].quantity = portfolio.current_position.quantity

\* a position is open in a run after an earlier trade was closed
C1_Witness ==
    /\ pc = "running"
    /\ portfolio.current_position # NoPosition
    /\ Len(portfolio.trades) >= 2
    /\ portfolio.trades[1].status = "CLOSED"
    /\ LastTrade.status = "OPEN"

\* C2: during and after the loop the equity curve has one sample per bar
\* processed, and the i-th sample carries the timestamp of the i-th bar.
C2_EquityCurvePerBar ==
    pc \in {"running", "done"} =>
        /\ Len(portfolio.equity_curve) = Len(bars)
        /\ Len(portfolio.timestamps) = Len(bars)
        /\ \A i \in 1..Len(bars) : portfolio.timestamps[i] = bars[i].timestamp

\* the open of the latest bar of a run was declined, and the bar has its sample
C2_Witness ==
    /\ pc = "running"
    /\ Len(bars) >= 2
    /\ ret = [op |-> "open_position", result |-> FALSE]
    /\ Len(portfolio.equity_curve) = Len(bars)

\* C3 (as claimed): at the end of a run final_equity minus initial_capital is
\* the sum of the pnl of the closed trades, and total_return is that sum as a
\* percentage of initial_capital.
C3_FinalEquityIsRealizedPnl ==
    pc = "done" =>
        /\ RSub(results.final_equity, results.initial_capital) = results.total_pnl
        /\ results.total_return =
              RMul(RDiv(results.total_pnl, results.initial_capital), Hundred)

\* C4: the end of a run leaves no position and no OPEN trade; a position that
\* was open after the last bar is closed at the unmodified close and at the
\* timestamp of the last bar.
C4_ForcedClose ==
    [][(pc = "running" /\ pc' = "done") =>
          /\ portfolio'.current_position = NoPosition
          /\ get_open_trades(portfolio') = <<>>
          /\ portfolio.current_position # NoPosition =>
                LET t == portfolio'.trades[Len(portfolio'.trades)]
                IN  /\ Len(portfolio'.trades) = Len(portfolio.trades)
                    /\ t.status = "CLOSED"
                    /\ t.exit_price = LastBar.close
                    /\ t.exit_time = LastBar.timestamp]_vars

\* a run with slippage has ended on a BUY bar that opened a position, closed
\* after the loop at the close of that bar
C4_Witness ==
    /\ pc = "done"
    /\ slippage # Zero
    /\ LastBar.signal = BUY
    /\ portfolio.trades # <<>>
    /\ LastTrade.status = "CLOSED"
    /\ LastTrade.entry_time = LastBar.timestamp
    /\ LastTrade.entry_price # LastBar.close
    /\ LastTrade.exit_price = LastBar.close
    /\ portfolio.current_position = NoPosition

\* C5: an open_position that returns False leaves the portfolio as it was
\* (cash, equity, current_position, trades, equity curve): called directly,
\* the portfolio is unchanged; in the loop, the bar does what it does without
\* the open (the close of the opposite position, if any, and the update) and
\* the run goes on.
C5_DeclinedOpenChangesNothing ==
    [][(ret'.op = "open_position" /\ ret'.result = FALSE) =>
          IF pc = "idle"
          THEN portfolio' = portfolio
          ELSE LET row == bars'[Len(bars')]
                   price == execution_price(row_signal(row), row.close, slippage)
                   closed == signal_close(portfolio, row.timestamp, row_signal(row), price)
               IN  /\ pc' = "running"
                   /\ Len(bars') = Len(bars) + 1
                   /\ portfolio'.cash = closed.cash
                   /\ portfolio'.current_position = NoPosition
                   /\ portfolio'.trades = closed.trades
                   /\ portfolio' = update(closed, row.timestamp, row.close)]_vars

\* an open made by the loop was declined and the run goes on
C5_Witness ==
    /\ pc = "running"
    /\ ret = [op |-> "open_position", result |-> FALSE]
    /\ Len(bars) < MaxBars
    /\ Len(portfolio.equity_curve) = Len(bars)

\* a state reached by update: a direct call, or the end of an iteration
AfterUpdate ==
    \/ pc = "idle" /\ ret.op = "update"
    \/ pc = "running" /\ Len(bars) >= 1

\* C6 (as claimed): after update with a LONG position open, the equity and the
\* sample appended to the equity curve are cash + quantity * price.
C6_LongEquityIsCashPlusValue ==
    (AfterUpdate /\ portfolio.current_position.position_type = LONG) =>
        LET value == RMul(portfolio.current_position.quantity,
                          portfolio.current_position.current_price)
        IN  /\ portfolio.equity = RAdd(portfolio.cash, value)
            /\ portfolio.equity_curve[Len(portfolio.equity_curve)] =
                  RAdd(portfolio.cash, value)

\* C7 (as claimed): update does not append a sample whose timestamp is not
\* after the previous one, so the timestamps of the curve strictly increase.
C7_TimestampsStrictlyIncrease ==
    \A i \in 1..(Len(portfolio.timestamps) - 1) :
        portfolio.timestamps[i] < portfolio.timestamps[i + 1]

\* C8: until a reset the log grows at its end only; a CLOSED trade is never
\* changed again, and an OPEN trade is either unchanged or CLOSED, with the
\* fields set at its opening kept.
C8_ClosedTradesAreFinal ==
    [][(ret'.op # "reset" /\ ~(pc = "idle" /\ pc' = "running")) =>
          /\ Len(portfolio'.trades) >= Len(portfolio.trades)
          /\ \A i \in 1..Len(portfolio.trades) :
                LET old == portfolio.trades[i]
                    new == portfolio'.trades[i]
                IN  /\ old.status = "CLOSED" => new = old
                    /\ old.status = "OPEN" =>
                          \/ new = old
                          \/ /\ new.status = "CLOSED"
                             /\ new.entry_time = old.entry_time
                             /\ new.position_type = old.position_type
                             /\ new.entry_price = old.entry_price
                             /\ new.quantity = old.quantity]_vars

\* a second trade was opened and closed after the first one was closed
C8_Witness ==
    /\ Len(portfolio.trades) >= 2
    /\ portfolio.trades[1].status = "CLOSED"
    /\ portfolio.trades[2].status = "CLOSED"
    /\ portfolio.trades[2].entry_time >= portfolio.trades[1].exit_time

\* C9: the commission of a CLOSED trade is the commission of its entry plus
\* the commission of its exit, each quantity * price * commission_rate.
C9_CommissionIsEntryPlusExit ==
    \A i \in 1..Len(portfolio.trades) :
        LET t == portfolio.trades[i]
        IN  t.status = "CLOSED" =>
               t.commission =
                  RAdd(RMul(RMul(t.quantity, t.entry_price), portfolio.commission_rate),
                       RMul(RMul(t.quantity, t.exit_price), portfolio.commission_rate))

\* a trade was closed at another price than its entry, with commission charged
C9_Witness ==
    \E i \in 1..Len(portfolio.trades) :
        /\ portfolio.trades[i].status = "CLOSED"
        /\ portfolio.trades[i].exit_price # portfolio.trades[i].entry_price
        /\ RGt(portfolio.trades[i].commission, Zero)
        /\ RGt(portfolio.trades[i].quantity, Zero)

\* C10: in a run, every CLOSED trade has exit_time >= entry_time.
C10_ExitNotBeforeEntry ==
    pc \in {"running", "done"} =>
        \A i \in 1..Len(portfolio.trades) :
            portfolio.trades[i].status = "CLOSED" =>
                portfolio.trades[i].exit_time >= portfolio.trades[i].entry_time

\* a run has ended with a trade closed on a later bar than its entry, the
\* next trade opened on the bar of that close, and the last trade opened on
\* the last bar and closed after the loop
C10_Witness ==
    /\ pc = "done"
    /\ Len(portfolio.trades) >= 3
    /\ portfolio.trades[1].exit_time > portfolio.trades[1].entry_time
    /\ portfolio.trades[2].entry_time = portfolio.trades[1].exit_time
    /\ LastTrade.status = "CLOSED"
    /\ LastTrade.entry_time = LastBar.timestamp
    /\ LastTrade.exit_time = LastBar.timestamp

\* the state Portfolio.__init__ leaves
Fresh(self) ==
    /\ self.cash = self.initial_capital
    /\ self.equity = self.initial_capital
    /\ self.current_position = NoPosition
    /\ self.trades = <<>>
    /\ self.equity_curve = <<>>
    /\ self.timestamps = <<>>

\* C11: reset, called directly or by run, leaves cash and equity at
\* initial_capital, no position, and the trade log, the equity curve and the
\* timestamps empty, whatever the portfolio held; run called again on the
\* same bars and signals yields the same trade log and equity curve.
C11_ResetThenSameRun ==
    [][/\ (ret'.op = "reset" \/ (pc = "idle" /\ pc' = "running")) =>
             /\ Fresh(portfolio')
             /\ portfolio'.initial_capital = portfolio.initial_capital
       /\ (pc = "done" /\ pc' = "done") =>
             /\ portfolio'.trades = portfolio.trades
             /\ portfolio'.equity_curve = portfolio.equity_curve
             /\ portfolio'.timestamps = portfolio.timestamps]_vars

\* a run that closed two trades has been repeated on its bars
C11_Witness ==
    /\ pc = "done"
    /\ rerun
    /\ Len(bars) >= 2
    /\ Len(portfolio.trades) >= 2
    /\ Len(portfolio.equity_curve) = Len(bars)

\* the run of the scenario has ended: two bars closing at 100 and 110, with
\* the signals BUY and SELL
ScenarioRun ==
    /\ pc = "done"
    /\ portfolio.initial_capital = ScenarioCapital
    /\ portfolio.commission_rate = Zero
    /\ slippage = Zero
    /\ ~allow_short
    /\ Len(bars) = 2
    /\ bars[1].close = <<100, 1>> /\ row_signal(bars[1]) = BUY
    /\ bars[2].close = <<110, 1>> /\ row_signal(bars[2]) = SELL

\* C12: with capital 10000, no commission, no slippage and no shorting, the
\* run on closes [100, 110] with signals [BUY, SELL] leaves exactly one trade,
\* CLOSED and LONG, entered at 100 and exited at 110, with pnl
\* (110 - 100) * quantity, and the final equity is 10000 + pnl.
C12_BuySellScenario ==
    ScenarioRun =>
        /\ Len(portfolio.trades) = 1
        /\ portfolio.trades[1].status = "CLOSED"
        /\ portfolio.trades[1].position_type = LONG
        /\ portfolio.trades[1].entry_price = <<100, 1>>
        /\ portfolio.trades[1].exit_price = <<110, 1>>
        /\ portfolio.trades[1].pnl = RMul(<<10, 1>>, portfolio.trades[1].quantity)
        /\ results.final_equity = RAdd(<<10000, 1>>, portfolio.trades[1].pnl)

\* the scenario has run with half of the cash put into the position
C12_Witness ==
    /\ ScenarioRun
    /\ portfolio.position_size = <<1, 2>>
    /\ portfolio.trades # <<>>
    /\ portfolio.trades[1].quantity = <<50, 1>>
    /\ results.ready

\* C13: profit_factor is +infinity with a winning closed trade and no losing
\* one, 0 with a losing closed trade and no winning one, and 0 with no closed
\* trade; the losing trades are the closed trades with pnl <= 0.
C13_ProfitFactor ==
    /\ losing_trades(portfolio) =
          Cardinality({i \in 1..Len(portfolio.trades) :
                          /\ portfolio.trades[i].status = "CLOSED"
                          /\ ~RGt(portfolio.trades[i].pnl, Zero)})
    /\ (winning_trades(portfolio) > 0 /\ losing_trades(portfolio) = 0) =>
          profit_factor(portfolio) = Infinity
    /\ (winning_trades(portfolio) = 0 /\ losing_trades(portfolio) > 0) =>
          profit_factor(portfolio) = Zero
    /\ total_trades(portfolio) = 0 => profit_factor(portfolio) = Zero

\* two trades were closed with a profit and none without
C13_Witness ==
    /\ winning_trades(portfolio) >= 2
    /\ losing_trades(portfolio) = 0
    /\ profit_factor(portfolio) = Infinity

AllPositive(equity) == \A i \in 1..Len(equity) : RGt(equity[i], Zero)

NonDecreasing(equity) ==
    \A i \in 1..(Len(equity) - 1) : ~RGt(equity[i], equity[i + 1])

\* C14: the maximum drawdown of an equity curve of positive values, by either
\* implementation, is >= 0, and it is 0 exactly when the curve never falls
\* from one sample to the next; the empty curve gives 0.
C14_MaxDrawdown ==
    AllPositive(portfolio.equity_curve) =>
        \A max_drawdown \in {calculate_max_drawdown(portfolio.equity_curve),
                              calculate_max_drawdown_value(portfolio.equity_curve)} :
            /\ ~RGt(Zero, max_drawdown)
            /\ max_drawdown = Zero <=> NonDecreasing(portfolio.equity_curve)

\* the equity fell by half and then rose above its first value
C14_Witness ==
    /\ Len(portfolio.equity_curve) = 3
    /\ AllPositive(portfolio.equity_curve)
    /\ RGt(portfolio.equity_curve[1], portfolio.equity_curve[2])
    /\ RGt(portfolio.equity_curve[3], portfolio.equity_curve[1])
    /\ calculate_max_drawdown(portfolio.equity_curve) = <<50, 1>>

\* C16 (as claimed): the metrics of an equity curve that is empty or has a
\* single sample, with no closed trade in the log, are the empty set.
C16_NoMetricsBelowTwoSamples ==
    (Len(portfolio.equity_curve) <= 1 /\ get_closed_trades(portfolio) = <<>>) =>
        calculate_all_metrics(portfolio.equity_curve, portfolio.trades) = {}

\* a date string that is not a calendar date written year-month-day
Malformed(v) ==
    /\ v # NoDate
    /\ ~(v.sep = "-" /\ v.month \in 1..12 /\ v.day \in 1..days_in_month(v.year, v.month))

\* two dates of which the first is not before the second
NotBefore(start_date, end_date) ==
    /\ start_date # NoDate /\ ~Malformed(start_date)
    /\ end_date # NoDate /\ ~Malformed(end_date)
    /\ \/ start_date.year > end_date.year
       \/ start_date.year = end_date.year /\ start_date.month > end_date.month
       \/ /\ start_date.year = end_date.year
          /\ start_date.month = end_date.month
          /\ start_date.day >= end_date.day

\* the parameters of a call that the validation is to reject
Invalid(args) ==
    \/ ~RGt(args.initial_capital, Zero)
    \/ RGt(Zero, args.commission_rate) \/ RGt(args.commission_rate, <<5, 100>>)
    \/ ~RGt(args.position_size, Zero) \/ RGt(args.position_size, One)
    \/ RGt(Zero, args.slippage) \/ RGt(args.slippage, <<5, 1000>>)
    \/ Malformed(args.start_date)
    \/ Malformed(args.end_date)
    \/ NotBefore(args.start_date, args.end_date)

\* C15: a call of backtest with validation whose initial_capital is <= 0, or
\* commission_rate outside [0, 0.05], or position_size outside (0, 1], or
\* slippage outside [0, 0.005], or a date malformed, or start_date not before
\* end_date, raises and leaves the engine as it was: no data loaded, no
\* Backtester created, the stored results kept.  No value is clamped: the
\* Backtester of a call that does not raise has the values that were passed.
C15_InvalidParametersRejected ==
    [][(ret'.op = "backtest" /\ calls' = calls + 1 /\ ret'.args.validate) =>
          /\ Invalid(ret'.args) => (~ret'.result /\ engine' = engine)
          /\ ret'.result =>
                /\ engine'.backtester.created
                /\ engine'.backtester.portfolio.initial_capital = ret'.args.initial_capital
                /\ engine'.backtester.portfolio.commission_rate = ret'.args.commission_rate
                /\ engine'.backtester.portfolio.position_size = ret'.args.position_size
                /\ engine'.backtester.slippage = ret'.args.slippage]_vars

\* after a backtest that stored its results, a call whose only fault is a
\* commission rate of 6% was rejected
C15_Witness ==
    /\ ret.op = "backtest"
    /\ ~ret.result
    /\ ret.args.validate
    /\ ret.args.commission_rate = <<3, 50>>
    /\ ret.args.initial_capital = <<1000, 1>>
    /\ ret.args.position_size = One
    /\ ret.args.slippage = Zero
    /\ ret.args.start_date = NoDate
    /\ engine.results.ready
    /\ engine.backtester.created
    /\ engine.backtester.portfolio.commission_rate = <<1, 20>>

\* a step of the loop: one more bar has been processed
BarStep == pc = "running" /\ pc' = "running" /\ Len(bars') = Len(bars) + 1

\* C17: in the loop a position opened or closed on a BUY bar fills at
\* close * (1 + slippage), one opened or closed on a SELL bar at
\* close * (1 - slippage); the equity sample of every bar is the one update
\* computes at the unmodified close.
C17_FillsSlipMarksDoNot ==
    [][BarStep =>
          LET row == bars'[Len(bars')]
              fill == IF row_signal(row) = BUY
                      THEN RMul(row.close, RAdd(One, slippage))
                      ELSE RMul(row.close, RSub(One, slippage))
              after == portfolio'
          IN  /\ row_signal(row) \in {BUY, SELL} =>
                    \A i \in 1..Len(after.trades) :
                        /\ i > Len(portfolio.trades) =>
                              /\ after.trades[i].entry_price = fill
                              /\ after.current_position.entry_price = fill
                        /\ (i <= Len(portfolio.trades)
                                /\ portfolio.trades[i].status = "OPEN"
                                /\ after.trades[i].status = "CLOSED") =>
                              after.trades[i].exit_price = fill
              /\ after.current_position # NoPosition =>
                    /\ after.current_position.current_price = row.close
                    /\ after.equity =
                          RAdd(RAdd(after.cash, unrealized_pnl(after.current_position)),
                               RMul(after.current_position.quantity, row.close))
              /\ after.current_position = NoPosition => after.equity = after.cash
              /\ after.equity_curve = Append(portfolio.equity_curve, after.equity)]_vars

\* with slippage, a BUY bar has closed a SHORT and opened a LONG above its
\* close, and the LONG is marked at the close
C17_Witness ==
    /\ pc = "running"
    /\ slippage # Zero
    /\ Len(portfolio.trades) >= 2
    /\ row_signal(LastBar) = BUY
    /\ portfolio.trades[Len(portfolio.trades) - 1].position_type = SHORT
    /\ portfolio.trades[Len(portfolio.trades) - 1].exit_time = LastBar.timestamp
    /\ portfolio.trades[Len(portfolio.trades) - 1].exit_price
          = RMul(LastBar.close, RAdd(One, slippage))
    /\ LastTrade.status = "OPEN"
    /\ LastTrade.entry_price = RMul(LastBar.close, RAdd(One, slippage))
    /\ portfolio.current_position.current_price = LastBar.close

\* the position is the one held before the step, whatever its mark
SamePosition(before, after) ==
    /\ after.current_position # NoPosition
    /\ after.current_position.position_type = before.current_position.position_type
    /\ after.current_position.entry_time = before.current_position.entry_time
    /\ after.current_position.entry_price = before.current_position.entry_price
    /\ after.current_position.quantity = before.current_position.quantity

\* the step has opened a position of the side at the price on the bar
OpenedOnBar(before, after, row, side, price) ==
    /\ after.current_position # NoPosition
    /\ after.current_position.position_type = side
    /\ after.current_position.entry_time = row.timestamp
    /\ after.current_position.entry_price = price
    /\ Len(after.trades) = Len(before.trades) + 1
    /\ after.trades[Len(after.trades)].status = "OPEN"
    /\ after.trades[Len(after.trades)].position_type = side
    /\ after.trades[Len(after.trades)].entry_price = price

\* the step has closed the open trade of the log at the price on the bar
ClosedOnBar(before, after, row, price) ==
    /\ after.trades[Len(before.trades)].status = "CLOSED"
    /\ after.trades[Len(before.trades)].exit_time = row.timestamp
    /\ after.trades[Len(before.trades)].exit_price = price

\* C18 (as claimed): on a BUY bar an open SHORT is closed and a LONG is opened
\* on the same bar at the same execution price; with no position open a LONG
\* is opened; with a LONG open, cash, the position and the log are unchanged.
C18_BuyBar ==
    [][(BarStep /\ row_signal(bars'[Len(bars')]) = BUY) =>
          LET row == bars'[Len(bars')]
              price == RMul(row.close, RAdd(One, slippage))
          IN  /\ portfolio.current_position.position_type = SHORT =>
                    /\ ClosedOnBar(portfolio, portfolio', row, price)
                    /\ OpenedOnBar(portfolio, portfolio', row, LONG, price)
              /\ portfolio.current_position = NoPosition =>
                    OpenedOnBar(portfolio, portfolio', row, LONG, price)
              /\ portfolio.current_position.position_type = LONG =>
                    /\ portfolio'.cash = portfolio.cash
                    /\ portfolio'.trades = portfolio.trades
                    /\ SamePosition(portfolio, portfolio')]_vars

\* C19: on a SELL bar an open LONG is closed, and a SHORT is opened on the bar,
\* after that close, only with allow_short true; with allow_short false the
\* portfolio never holds a SHORT position and the log never has a SHORT trade.
C19_SellBar ==
    [][/\ (BarStep /\ row_signal(bars'[Len(bars')]) = SELL) =>
             LET row == bars'[Len(bars')]
                 price == RMul(row.close, RSub(One, slippage))
             IN  /\ portfolio.current_position.position_type = LONG =>
                       /\ ClosedOnBar(portfolio, portfolio', row, price)
                       /\ portfolio'.current_position.position_type # LONG
                 /\ Len(portfolio'.trades) > Len(portfolio.trades) =>
                       /\ allow_short
                       /\ OpenedOnBar(portfolio, portfolio', row, SHORT, price)
                       /\ get_open_trades(portfolio') = <<portfolio'.trades[Len(portfolio'.trades)]>>
                 /\ portfolio'.current_position.position_type = SHORT => allow_short
       /\ ~allow_short' =>
             /\ portfolio'.current_position.position_type # SHORT
             /\ \A i \in 1..Len(portfolio'.trades) :
                   portfolio'.trades[i].position_type # SHORT]_vars

\* without shorting, a SELL bar has closed the LONG of an earlier bar and
\* left no position
C19_Witness ==
    /\ pc = "running"
    /\ ~allow_short
    /\ Len(bars) >= 2
    /\ row_signal(LastBar) = SELL
    /\ portfolio.trades # <<>>
    /\ LastTrade.position_type = LONG
    /\ LastTrade.status = "CLOSED"
    /\ LastTrade.entry_time < LastBar.timestamp
    /\ LastTrade.exit_time = LastBar.timestamp
    /\ portfolio.current_position = NoPosition

\* the row has no signal, or one that is neither BUY nor SELL
NoTradeSignal(row) == "signal" \in DOMAIN row => row.signal \notin {BUY, SELL}

\* C20: a bar whose signal is HOLD, or any value other than BUY and SELL, or
\* missing, leaves cash, the log and the position's side, entry and quantity
\* as they were; the portfolio changes only by the mark of the position at the
\* close of the bar and by one sample of equity appended with the bar's
\* timestamp.
C20_HoldBar ==
    [][(BarStep /\ NoTradeSignal(bars'[Len(bars')])) =>
          LET row == bars'[Len(bars')]
          IN  /\ portfolio'.cash = portfolio.cash
              /\ portfolio'.trades = portfolio.trades
              /\ portfolio.current_position # NoPosition => SamePosition(portfolio, portfolio')
              /\ portfolio' =
                    [portfolio EXCEPT
                        !.current_position =
                            IF @ = NoPosition THEN @ ELSE [@ EXCEPT !.current_price = row.close],
                        !.equity = portfolio'.equity,
                        !.equity_curve = Append(@, portfolio'.equity),
                        !.timestamps = Append(@, row.timestamp)]]_vars

\* a position opened at one price has been carried over a bar of another
\* close that has no signal
C20_Witness ==
    /\ pc = "running"
    /\ Len(bars) >= 2
    /\ "signal" \notin DOMAIN LastBar
    /\ portfolio.current_position # NoPosition
    /\ portfolio.current_position.entry_time < LastBar.timestamp
    /\ portfolio.current_position.current_price = LastBar.close
    /\ portfolio.current_position.current_price # portfolio.current_position.entry_price
    /\ Len(portfolio.equity_curve) = Len(bars)

\* C21: the pnl of a trade closed by close_position is
\* (exit_price - entry_price) * quantity for a LONG and
\* (entry_price - exit_price) * quantity for a SHORT, minus the commission of
\* the entry and minus the commission of the exit; close_position leaves no
\* current position.
C21_ClosedTradePnl ==
    /\ \A i \in 1..Len(portfolio.trades) :
          LET t == portfolio.trades[i]
              gross == IF t.position_type = LONG
                       THEN RMul(RSub(t.exit_price, t.entry_price), t.quantity)
                       ELSE RMul(RSub(t.entry_price, t.exit_price), t.quantity)
              entry_commission == RMul(RMul(t.quantity, t.entry_price), portfolio.commission_rate)
              exit_commission == RMul(RMul(t.quantity, t.exit_price), portfolio.commission_rate)
          IN  t.status = "CLOSED" =>
                 t.pnl = RSub(RSub(gross, entry_commission), exit_commission)
    /\ (pc = "idle" /\ ret.op = "close_position") =>
          /\ portfolio.current_position = NoPosition
          /\ get_open_trades(portfolio) = <<>>

\* close_position, called directly, has closed a SHORT at a loss with
\* commission charged at both ends
C21_Witness ==
    /\ pc = "idle"
    /\ ret = [op |-> "close_position", result |-> TRUE]
    /\ portfolio.commission_rate # Zero
    /\ LastTrade.status = "CLOSED"
    /\ LastTrade.position_type = SHORT
    /\ RGt(LastTrade.exit_price, LastTrade.entry_price)
    /\ RGt(Zero, LastTrade.pnl)
    /\ portfolio.current_position = NoPosition

\* C22: after update with a SHORT open, the recorded equity is cash plus
\* the mark-to-market value of the position at the update's price,
\* cash + entry_price * quantity + (entry_price - price) * quantity, the
\* amount close_position at that price would bring cash to before the exit
\* commission.
C22_ShortEquityMarkedToMarket ==
    (AfterUpdate /\ portfolio.current_position.position_type = SHORT) =>
       LET p == portfolio.current_position
       IN  portfolio.equity_curve[Len(portfolio.equity_curve)] =
              RAdd(portfolio.cash,
                   RAdd(RMul(p.entry_price, p.quantity),
                        RMul(RSub(p.entry_price, p.current_price), p.quantity)))

\* C23: when the loop opens a position, the quantity open_position derives
\* satisfies quantity * price * (1 + commission_rate) = cash * position_size
\* for the cash held when it is called; a successful open debits exactly
\* cash * position_size; and with cash >= 0 the open is not declined.
C23_DerivedQuantityFitsBudget ==
    [][(BarStep /\ ret'.op = "open_position") =>
          LET row == bars'[Len(bars')]
              price == execution_price(row_signal(row), row.close, slippage)
              after == portfolio'
              trade == after.trades[Len(after.trades)]
          IN  \A cash \in {signal_close(portfolio, row.timestamp,
                                         row_signal(row), price).cash} :
                 \A budget \in {RMul(cash, portfolio.position_size)} :
                    /\ ret'.result =>
                          /\ Len(after.trades) = Len(portfolio.trades) + 1
                          /\ trade.entry_price = price
                          /\ RMul(RMul(trade.quantity, price),
                                  RAdd(One, after.commission_rate)) = budget
                          /\ after.cash = RSub(cash, budget)
                    /\ ~RGt(Zero, cash) => ret'.result]_vars

\* with commission and half the cash staked, the loop has reopened a position
\* from the cash left by an earlier trade
C23_Witness ==
    /\ pc = "running"
    /\ ret = [op |-> "open_position", result |-> TRUE]
    /\ portfolio.commission_rate # Zero
    /\ portfolio.position_size # One
    /\ Len(portfolio.trades) >= 2
    /\ portfolio.trades[1].status = "CLOSED"
    /\ LastTrade.status = "OPEN"
    /\ LastTrade.entry_time = LastBar.timestamp
    /\ portfolio.cash # Zero

\* the curve of a run on which a bar has been processed
RunCurve ==
    /\ pc \in {"running", "done"}
    /\ portfolio.equity_curve # <<>>

BelowRunningMax(equity, i, j) ==
    \A k \in i..j : \E m \in 1..(k - 1) : RGt(equity[m], equity[k])

\* length of the longest contiguous run of bars below the running maximum
LongestRunBelow(equity) ==
    CHOOSE n \in 0..Len(equity) :
       /\ n = 0 \/ \E i \in 1..(Len(equity) - n + 1) :
                      BelowRunningMax(equity, i, i + n - 1)
       /\ \A i \in 1..Len(equity), j \in 1..Len(equity) :
             (i <= j /\ BelowRunningMax(equity, i, j)) => j - i + 1 <= n

ClosedIndexes ==
    {i \in 1..Len(simulation.trades_df) : simulation.trades_df[i].status = "CLOSED"}

C27_CashIsCapitalPlusPnl ==
    portfolio.current_position = NoPosition =>
        /\ \A i \in 1..Len(portfolio.trades) : portfolio.trades[i].status = "CLOSED"
        /\ portfolio.cash = RAdd(portfolio.initial_capital, SumPnl(portfolio.trades))

\* a run with commission has closed a LONG and a SHORT, with different pnl
C27_Witness ==
    /\ pc \in {"running", "done"}
    /\ portfolio.current_position = NoPosition
    /\ portfolio.commission_rate # Zero
    /\ Len(portfolio.trades) = 2
    /\ portfolio.trades[1].position_type # portfolio.trades[2].position_type
    /\ portfolio.trades[1].pnl # portfolio.trades[2].pnl
    /\ portfolio.trades[2].pnl # Zero
    /\ portfolio.cash # portfolio.initial_capital

\* a run of the loop from a configuration the validators accept: commission
\* rate at most 0.05, slippage at most 0.005 (initial_capital > 0,
\* 0 < position_size <= 1 and positive prices hold of every run)
ValidRun ==
    /\ pc \in {"running", "done"}
    /\ ~RGt(portfolio.commission_rate, <<1, 20>>)
    /\ ~RGt(slippage, <<1, 200>>)
    /\ RGt(portfolio.initial_capital, Zero)
    /\ RGt(portfolio.position_size, Zero) /\ ~RGt(portfolio.position_size, One)
    /\ \A i \in 1..Len(bars) : RGt(bars[i].close, Zero)

\* C28: in a run from a valid configuration over positive prices, with or
\* without shorting, cash is never negative.
C28_CashNeverNegative ==
    ValidRun => ~RGt(Zero, portfolio.cash)

\* C29: in a run from a valid configuration over positive prices, with or
\* without shorting, every position opened, and so every trade of the log,
\* has quantity > 0.
C29_QuantityPositive ==
    ValidRun =>
        /\ \A i \in 1..Len(portfolio.trades) : RGt(portfolio.trades[i].quantity, Zero)
        /\ portfolio.current_position # NoPosition =>
              RGt(portfolio.current_position.quantity, Zero)

\* C30: for a trade log with at least one CLOSED trade, the profit_factor of
\* PerformanceMetrics._calculate_trade_metrics equals Portfolio.profit_factor()
\* on the same trades.
C30_ProfitFactorsAgree ==
    get_closed_trades(portfolio) # <<>> =>
        trade_metrics_profit_factor(portfolio.trades) = profit_factor(portfolio)

====
